---- MODULE Spec2Model ----
(***************************************************************************)
(* A model of cypheralchemy.Transaction (src/cypheralchemy.py): the state  *)
(* machine that drives neo4j's transactional HTTP endpoint.                *)
(*                                                                         *)
(* Python's None / "key absent" is written as the empty sequence <<>> and  *)
(* a present value v as <<v>>, so that every field has one shape.          *)
(***************************************************************************)
EXTENDS Integers, Sequences, FiniteSets, TLC

VARIABLES
    txn,        \* the fields of the Transaction object
    outcome,    \* how the last call ended: what it returned or raised
    request,    \* <<>> or <<r>>: the urlopen() call the last call made
    response,   \* <<>> or <<r>>: what that urlopen() call returned
    callers,    \* where each caller is in the method it has called
    added,      \* every statement add_statement gave the Transaction, in order
    session,    \* whether the Session holds a Transaction (txn) in _transaction
    query,      \* <<>> or <<q>>: the arguments of the last Query.cypher call
    mutex       \* whether the callers' host lets one call at a time at txn

vars == <<txn, outcome, request, response, callers, added, session, query, mutex>>

------------------------------------------------------------------------------
(* Bounds of the model *)

\* at most this many statements are ever added to one Transaction
MaxStmts == 2
\* the errors list of a response holds at most this many errors
MaxErrors == 2

------------------------------------------------------------------------------
(* Program constants *)

BASE_PATH == "/db/data/transaction"
TRANSACTION_TIMED_OUT_CODE == "Neo.ClientError.Transaction.UnknownId"
CYPHER_SYNTAX_ERROR_CODE == "Neo.ClientError.Statement.InvalidSyntax"
\* some code the module gives no special treatment
OTHER_ERROR_CODE == "Neo.DatabaseError.General.UnknownError"

TransactionClosedError == "TransactionClosedError"

------------------------------------------------------------------------------
(* Inputs *)

\* arguments of add_statement(cypher, params)
Cyphers == {"MATCH (n) RETURN n", "CREATE (n)"}
Params == {"None", "{}", "{k: v}"}

\* values a server may put in the location header
ServerLocations == {"/db/data/transaction/17", "/db/data/transaction/18"}

ErrorCodes == {TRANSACTION_TIMED_OUT_CODE, CYPHER_SYNTAX_ERROR_CODE, OTHER_ERROR_CODE}

SeqsUpTo(S, n) == UNION {[1..k -> S] : k \in 0..n}

Option(S) == {<<>>} \cup {<<v>> : v \in S}

\* the error objects of a response body
ErrorObjects == {[code |-> c, message |-> "message of " \o c] : c \in ErrorCodes}

\* the JSON documents a server may answer with; a missing errors key and an
\* empty errors list are both the empty list here (data.get('errors') is
\* falsy for both)
Payloads == {[errors |-> es] : es \in SeqsUpTo(ErrorObjects, MaxErrors)}

\* the raw bytes of a response: the serialisation of a document, or bytes
\* that are no JSON document
Bodies == {[wellformed |-> TRUE, json |-> <<p>>] : p \in Payloads}
            \cup {[wellformed |-> FALSE, json |-> <<>>]}

\* the responses urlopen() may return: with a content-encoding header any
\* body, without one (where the body is never looked at) the malformed body
Responses ==
    [ headers : [location : Option(ServerLocations),
                 content_encoding : {<<"utf-8">>}],
      data : Bodies ]
    \cup
    [ headers : [location : Option(ServerLocations),
                 content_encoding : {<<>>}],
      data : {b \in Bodies : ~b.wellformed} ]

\* what urlopen() does: <<>> when it raises (connection failure, timeout),
\* <<r>> when it returns response r
Transports == Option(Responses)

------------------------------------------------------------------------------
(* Transaction *)

\* Transaction.__init__
TransactionInit ==
    [ location |-> BASE_PATH,
      started |-> FALSE,
      committed |-> FALSE,
      rolled_back |-> FALSE,
      executed_statements |-> <<>>,
      statements |-> <<>> ]

\* is_operable looking at _committed alone
is_operable_committed_only(t) == ~t.committed

\* Transaction.is_operable
is_operable(t) == ~(t.committed \/ t.rolled_back)

\* the dict add_statement builds: the parameters key only when params is truthy
Statement(cypher, params) ==
    [ statement |-> cypher,
      parameters |-> IF params \in {"None", "{}"} THEN <<>> ELSE <<params>> ]

\* how a call ends: the fields afterwards, the exception raised ("" when it
\* returns), the exception's message, the value returned (<<>> for None) and
\* the urlopen() call it made
Ended(t, raised, message, value, req) ==
    [ txn |-> t, raised |-> raised, message |-> message, value |-> value,
      request |-> req ]

\* json.dumps of a request body
json_dumps(data) == [json |-> data]

\* the classes of the exceptions a call may raise, each with its base class:
\* the module's own, and those that come out of urlopen(), the headers lookup
\* and json.loads
Base ==
    [ CypherAlchemyError |-> "Exception",
      RequestError |-> "CypherAlchemyError",
      TransactionClosedError |-> "RequestError",
      CypherSyntaxError |-> "RequestError",
      KeyError |-> "Exception",
      ValueError |-> "Exception",
      TransportError |-> "Exception" ]

\* isinstance(e, cls) for an exception of class e
RECURSIVE IsA(_, _)
IsA(e, cls) ==
    \/ e = cls
    \/ e \in DOMAIN Base /\ IsA(Base[e], cls)

\* decode reporting bytes that are no document as one of the module's errors
decode_raises_request_error(resp) ==
    IF resp.headers.content_encoding = <<>>
    THEN [raised |-> "KeyError", data |-> <<>>]
    ELSE IF ~resp.data.wellformed
    THEN [raised |-> "RequestError", data |-> <<>>]
    ELSE [raised |-> "", data |-> resp.data.json]

\* json.loads(response.data.decode(response.headers['content-encoding'])):
\* raised is "" when the bytes decode to a document
decode(resp) ==
    IF resp.headers.content_encoding = <<>>
    THEN [raised |-> "KeyError", data |-> <<>>]
    ELSE IF ~resp.data.wellformed
    THEN [raised |-> "ValueError", data |-> <<>>]
    ELSE [raised |-> "", data |-> resp.data.json]

\* process_response with the rolled-back flag set only on the path that returns
process_response_flag_after_raise(t, resp, req) ==
    LET t1 == IF resp.headers.location # <<>>
              THEN [t EXCEPT !.location = resp.headers.location[1],
                             !.started = TRUE]
              ELSE t
        d == decode(resp)
    IN  IF d.raised # ""
        THEN Ended(t1, d.raised, "", <<>>, req)
        ELSE LET data == d.data[1]
                 errors == data.errors
             IN  IF errors # <<>>
                 THEN IF errors[1].code = TRANSACTION_TIMED_OUT_CODE
                      THEN Ended(t1, TransactionClosedError,
                                 errors[1].message, <<>>, req)
                      ELSE Ended([t1 EXCEPT !.rolled_back = TRUE],
                                 "", "", <<data>>, req)
                 ELSE Ended(t1, "", "", <<data>>, req)

\* process_response raising for an expired code anywhere in the errors list
process_response_any_expired(t, resp, req) ==
    LET t1 == IF resp.headers.location # <<>>
              THEN [t EXCEPT !.location = resp.headers.location[1],
                             !.started = TRUE]
              ELSE t
        d == decode(resp)
    IN  IF d.raised # ""
        THEN Ended(t1, d.raised, "", <<>>, req)
        ELSE LET data == d.data[1]
                 errors == data.errors
             IN  IF errors # <<>>
                 THEN LET t2 == [t1 EXCEPT !.rolled_back = TRUE]
                      IN  IF \E i \in DOMAIN errors :
                                 errors[i].code = TRANSACTION_TIMED_OUT_CODE
                          THEN Ended(t2, TransactionClosedError,
                                     errors[1].message, <<>>, req)
                          ELSE Ended(t2, "", "", <<data>>, req)
                 ELSE Ended(t1, "", "", <<data>>, req)

\* process_response adopting a location header only while not yet started
process_response_first_location(t, resp, req) ==
    LET t1 == IF resp.headers.location # <<>> /\ ~t.started
              THEN [t EXCEPT !.location = resp.headers.location[1],
                             !.started = TRUE]
              ELSE t
        d == decode(resp)
    IN  IF d.raised # ""
        THEN Ended(t1, d.raised, "", <<>>, req)
        ELSE LET data == d.data[1]
                 errors == data.errors
             IN  IF errors # <<>>
                 THEN LET t2 == [t1 EXCEPT !.rolled_back = TRUE]
                      IN  IF errors[1].code = TRANSACTION_TIMED_OUT_CODE
                          THEN Ended(t2, TransactionClosedError,
                                     errors[1].message, <<>>, req)
                          ELSE Ended(t2, "", "", <<data>>, req)
                 ELSE Ended(t1, "", "", <<data>>, req)

\* process_response assigning the rolled-back flag from the errors list
process_response_flag_from_errors(t, resp, req) ==
    LET t1 == IF resp.headers.location # <<>>
              THEN [t EXCEPT !.location = resp.headers.location[1],
                             !.started = TRUE]
              ELSE t
        d == decode(resp)
    IN  IF d.raised # ""
        THEN Ended(t1, d.raised, "", <<>>, req)
        ELSE LET data == d.data[1]
                 errors == data.errors
                 t2 == [t1 EXCEPT !.rolled_back = (errors # <<>>)]
             IN  IF errors # <<>>
                 THEN IF errors[1].code = TRANSACTION_TIMED_OUT_CODE
                      THEN Ended(t2, TransactionClosedError,
                                 errors[1].message, <<>>, req)
                      ELSE Ended(t2, "", "", <<data>>, req)
                 ELSE Ended(t2, "", "", <<data>>, req)

\* process_response setting started only once the body has decoded
process_response_started_after_decoding(t, resp, req) ==
    LET t1 == IF resp.headers.location # <<>>
              THEN [t EXCEPT !.location = resp.headers.location[1]]
              ELSE t
        t1s == IF resp.headers.location # <<>>
               THEN [t1 EXCEPT !.started = TRUE]
               ELSE t1
        d == decode(resp)
    IN  IF d.raised # ""
        THEN Ended(t1, d.raised, "", <<>>, req)
        ELSE LET data == d.data[1]
                 errors == data.errors
             IN  IF errors # <<>>
                 THEN LET t2 == [t1s EXCEPT !.rolled_back = TRUE]
                      IN  IF errors[1].code = TRANSACTION_TIMED_OUT_CODE
                          THEN Ended(t2, TransactionClosedError,
                                     errors[1].message, <<>>, req)
                          ELSE Ended(t2, "", "", <<data>>, req)
                 ELSE Ended(t1s, "", "", <<data>>, req)

\* Transaction._process_response: the location header, the decoding, the
\* errors list
process_response(t, resp, req) ==
    LET t1 == IF resp.headers.location # <<>>
              THEN [t EXCEPT !.location = resp.headers.location[1],
                             !.started = TRUE]
              ELSE t
        d == decode(resp)
    IN  IF d.raised # ""
        THEN Ended(t1, d.raised, "", <<>>, req)
        ELSE LET data == d.data[1]
                 errors == data.errors
             IN  IF errors # <<>>
                 THEN LET t2 == [t1 EXCEPT !.rolled_back = TRUE]
                      IN  IF errors[1].code = TRANSACTION_TIMED_OUT_CODE
                          THEN Ended(t2, TransactionClosedError,
                                     errors[1].message, <<>>, req)
                          ELSE Ended(t2, "", "", <<data>>, req)
                 ELSE Ended(t1, "", "", <<data>>, req)

\* Transaction._make_request: data is <<>> (None) or <<d>>; transport is what
\* urlopen() does with the request
make_request(t, method, path, data, transport) ==
    LET body == IF data # <<>> THEN <<json_dumps(data[1])>> ELSE <<>>
        req == <<[method |-> method, path |-> path, body |-> body]>>
    IN  IF transport = <<>>
        THEN Ended(t, "TransportError", "", <<>>, req)
        ELSE process_response(t, transport[1], req)

\* Transaction._get_prepared_statements
get_prepared_statements(t) == [statements |-> t.statements]

\* archive_current_statements leaving the statements pending
archive_current_statements_keeps_pending(t) ==
    IF t.statements = <<>>
    THEN t
    ELSE [t EXCEPT !.executed_statements = @ \o t.statements]

\* archive_current_statements putting the statements sent in front of the log
archive_current_statements_prepend(t) ==
    IF t.statements = <<>>
    THEN t
    ELSE [t EXCEPT !.executed_statements = t.statements \o @,
                   !.statements = <<>>]

\* Transaction._archive_current_statements
archive_current_statements(t) ==
    IF t.statements = <<>>
    THEN t
    ELSE [t EXCEPT !.executed_statements = @ \o t.statements,
                   !.statements = <<>>]

\* the wrapper checking the committed flag alone
assert_operable_committed_only(t, name, r) ==
    IF t.committed
    THEN Ended(t, TransactionClosedError,
               "Attempted to call " \o name \o "() on an already "
                   \o (IF t.committed THEN "committed" ELSE "rolled-back")
                   \o " transaction",
               <<>>, <<>>)
    ELSE r

\* the wrapper of _assert_operable around a method: r is how the wrapped
\* method ends when it is called
assert_operable(t, name, r) ==
    IF ~is_operable(t)
    THEN Ended(t, TransactionClosedError,
               "Attempted to call " \o name \o "() on an already "
                   \o (IF t.committed THEN "committed" ELSE "rolled-back")
                   \o " transaction",
               <<>>, <<>>)
    ELSE r

\* Transaction.add_statement, inside the wrapper
add_statement_body(t, cypher, params) ==
    Ended([t EXCEPT !.statements = Append(@, Statement(cypher, params))],
          "", "", <<>>, <<>>)

\* Early with execute going on to the request when nothing is pending
Early_execute_always_sends(op, t) ==
    CASE op = "execute" -> <<>>
      [] op = "commit" -> <<>>
      [] op = "rollback" ->
           IF ~t.started
           THEN <<Ended(t, TransactionClosedError,
                        "Cannot rollback non-started transaction.", <<>>, <<>>)>>
           ELSE <<>>

\* Early with commit returning None, like execute, when nothing is pending
Early_commit_returns_early(op, t) ==
    CASE op = "execute" ->
           IF t.statements = <<>> THEN <<Ended(t, "", "", <<>>, <<>>)>> ELSE <<>>
      [] op = "commit" ->
           IF t.statements = <<>> THEN <<Ended(t, "", "", <<>>, <<>>)>> ELSE <<>>
      [] op = "rollback" ->
           IF ~t.started
           THEN <<Ended(t, TransactionClosedError,
                        "Cannot rollback non-started transaction.", <<>>, <<>>)>>
           ELSE <<>>

\* a method inside the wrapper, up to its call of _make_request: <<e>> when it
\* ends as e before that call, <<>> when it goes on to make it
\*   execute returns None when nothing is pending
\*   rollback raises when the Transaction has not started
Early(op, t) ==
    CASE op = "execute" ->
           IF t.statements = <<>> THEN <<Ended(t, "", "", <<>>, <<>>)>> ELSE <<>>
      [] op = "commit" -> <<>>
      [] op = "rollback" ->
           IF ~t.started
           THEN <<Ended(t, TransactionClosedError,
                        "Cannot rollback non-started transaction.", <<>>, <<>>)>>
           ELSE <<>>

\* commit with the path of execute
Args_commit_to_location(op, t) ==
    CASE op = "execute" ->
           [method |-> "POST", path |-> t.location,
            data |-> <<get_prepared_statements(t)>>]
      [] op = "commit" ->
           [method |-> "POST", path |-> t.location,
            data |-> <<get_prepared_statements(t)>>]
      [] op = "rollback" ->
           [method |-> "DELETE", path |-> t.location, data |-> <<>>]

\* the arguments a method gives _make_request
Args(op, t) ==
    CASE op = "execute" ->
           [method |-> "POST", path |-> t.location,
            data |-> <<get_prepared_statements(t)>>]
      [] op = "commit" ->
           [method |-> "POST", path |-> t.location \o "/commit",
            data |-> <<get_prepared_statements(t)>>]
      [] op = "rollback" ->
           [method |-> "DELETE", path |-> t.location, data |-> <<>>]

\* After with rollback leaving the flag to _process_response
After_rollback_sets_nothing(op, r) ==
    IF r.raised # ""
    THEN r
    ELSE CASE op = "execute" ->
                [r EXCEPT !.txn = archive_current_statements(r.txn)]
           [] op = "commit" ->
                [r EXCEPT !.txn = [archive_current_statements(r.txn)
                                       EXCEPT !.committed = TRUE]]
           [] op = "rollback" -> r

\* what a method does once _make_request has ended as r: an exception goes
\* on to the caller; otherwise
\*   execute archives the statements
\*   commit archives them and sets committed
\*   rollback sets rolled_back
After(op, r) ==
    IF r.raised # ""
    THEN r
    ELSE CASE op = "execute" ->
                [r EXCEPT !.txn = archive_current_statements(r.txn)]
           [] op = "commit" ->
                [r EXCEPT !.txn = [archive_current_statements(r.txn)
                                       EXCEPT !.committed = TRUE]]
           [] op = "rollback" ->
                [r EXCEPT !.txn = [r.txn EXCEPT !.rolled_back = TRUE]]

\* Finish with the statements archived before the request is made
Finish_archive_first(op, t, a, transport) ==
    make_request(IF op = "rollback" THEN t ELSE archive_current_statements(t),
                 a.method, a.path, a.data, transport)

\* a method inside the wrapper from its call of _make_request on: the
\* arguments were computed as a, the fields are t when urlopen() ends
Finish(op, t, a, transport) ==
    After(op, make_request(t, a.method, a.path, a.data, transport))

\* Transaction.add_statement
add_statement_call(t, cypher, params) ==
    assert_operable(t, "add_statement", add_statement_body(t, cypher, params))

\* Transaction.execute, Transaction.commit, Transaction.rollback
method_call(op, t, transport) ==
    assert_operable(t, op,
        IF Early(op, t) # <<>>
        THEN Early(op, t)[1]
        ELSE Finish(op, t, Args(op, t), transport))

------------------------------------------------------------------------------
(* One caller at a time: every call runs to its end before the next *)

Callers == {"a", "b"}

\* a caller not inside any method
\* late tells, of a caller inside urlopen(), whether the Transaction was
\* already closed when it made that call
Idle == [pc |-> "idle", op |-> "", args |-> <<>>, late |-> FALSE]

\* a call of method op ended as r; transport is what urlopen() did if called
Call(op, r, transport) ==
    /\ txn' = r.txn
    /\ outcome' = [op |-> op, raised |-> r.raised, message |-> r.message,
                   value |-> r.value]
    /\ request' = r.request
    /\ response' = IF r.request = <<>> THEN <<>> ELSE transport

Init ==
    /\ txn = TransactionInit
    /\ outcome = [op |-> "__init__", raised |-> "", message |-> "", value |-> <<>>]
    /\ request = <<>>
    /\ response = <<>>
    /\ callers = [c \in Callers |-> Idle]
    /\ added = <<>>
    /\ session = FALSE
    /\ query = <<>>
    /\ mutex = FALSE

\* the statements one Transaction is given are bounded
MayAdd(t) == Len(t.statements) + Len(t.executed_statements) < MaxStmts

add_statement ==
    \E cypher \in Cyphers, params \in Params :
        /\ is_operable(txn) => MayAdd(txn)
        /\ Call("add_statement", add_statement_call(txn, cypher, params), <<>>)
        /\ added' = IF is_operable(txn)
                    THEN Append(added, Statement(cypher, params))
                    ELSE added
        /\ UNCHANGED <<callers, session, query, mutex>>

\* a call of execute, commit or rollback: urlopen() is reached only by a call
\* that gets past the wrapper and the early returns, and such a call ends in
\* one way for each thing urlopen() may do
Method(op) ==
    /\ IF method_call(op, txn, <<>>).request = <<>>
       THEN Call(op, method_call(op, txn, <<>>), <<>>)
       ELSE \E transport \in Transports :
                Call(op, method_call(op, txn, transport), transport)
    /\ UNCHANGED <<callers, added, session, query, mutex>>

execute == Method("execute")

commit == Method("commit")

rollback == Method("rollback")

Next == add_statement \/ execute \/ commit \/ rollback

Spec == Init /\ [][Next]_vars

------------------------------------------------------------------------------
(* Two callers sharing one Transaction with nothing serializing them: a     *)
(* caller may be overtaken between the check of the wrapper and the method, *)
(* and while it waits in urlopen()                                          *)

Methods == {"add_statement", "execute", "commit", "rollback"}

\* what urlopen() does for them: it raises, or it returns a response that
\* decodes and reports no error or one
SharedTransports ==
    {<<>>} \cup {<<r>> : r \in {x \in Responses :
                                   /\ decode(x).raised = ""
                                   /\ x.data.json[1].errors \in
                                        SeqsUpTo(ErrorObjects, 1)}}

\* the statement they add
SharedCyphers == {"CREATE (n)"}
SharedParams == {"None", "{k: v}"}

\* caller c calls a method: the wrapper raises or lets the call through
Enter(c) ==
    \E op \in Methods :
        /\ callers[c].pc = "idle"
        /\ IF is_operable(txn)
           THEN /\ callers' = [callers EXCEPT ![c] = [Idle EXCEPT !.pc = "body",
                                                                 !.op = op]]
                /\ UNCHANGED <<txn, outcome, request, response>>
           ELSE /\ Call(op, assert_operable(txn, op, Ended(txn, "", "", <<>>, <<>>)),
                        <<>>)
                /\ UNCHANGED callers
        /\ UNCHANGED <<added, session, query, mutex>>

\* caller c, let through by the wrapper, runs add_statement
Add(c) ==
    \E cypher \in SharedCyphers, params \in SharedParams :
        /\ callers[c].pc = "body"
        /\ callers[c].op = "add_statement"
        /\ MayAdd(txn)
        /\ Call("add_statement", add_statement_body(txn, cypher, params), <<>>)
        /\ callers' = [callers EXCEPT ![c] = Idle]
        /\ added' = Append(added, Statement(cypher, params))
        /\ UNCHANGED <<session, query, mutex>>

\* caller c, let through by the wrapper, runs the method up to urlopen()
Send(c) ==
    LET op == callers[c].op
    IN  /\ callers[c].pc = "body"
        /\ op # "add_statement"
        /\ IF Early(op, txn) # <<>>
           THEN /\ Call(op, Early(op, txn)[1], <<>>)
                /\ callers' = [callers EXCEPT ![c] = Idle]
           ELSE /\ callers' = [callers EXCEPT ![c].pc = "urlopen",
                                              ![c].args = <<Args(op, txn)>>,
                                              ![c].late = txn.committed
                                                            \/ txn.rolled_back]
                /\ UNCHANGED <<txn, outcome, request, response>>
        /\ UNCHANGED <<added, session, query, mutex>>

\* urlopen() ends for caller c, which runs the rest of the method
Receive(c) ==
    \E transport \in SharedTransports :
        /\ callers[c].pc = "urlopen"
        /\ Call(callers[c].op,
                Finish(callers[c].op, txn, callers[c].args[1], transport),
                transport)
        /\ callers' = [callers EXCEPT ![c] = Idle]
        /\ UNCHANGED <<added, session, query, mutex>>

NextShared == \E c \in Callers : Enter(c) \/ Add(c) \/ Send(c) \/ Receive(c)

SpecShared == Init /\ [][NextShared]_vars

------------------------------------------------------------------------------
(* Two callers sharing one Transaction under a host that may serialize them: *)
(* with mutex a call is let at the Transaction only when no other call is    *)
(* inside a method, and a call runs to its end before the next begins       *)

\* the state after construction, under a host of either kind
InitHosted ==
    /\ txn = TransactionInit
    /\ outcome = [op |-> "__init__", raised |-> "", message |-> "", value |-> <<>>]
    /\ request = <<>>
    /\ response = <<>>
    /\ callers = [c \in Callers |-> Idle]
    /\ added = <<>>
    /\ session = FALSE
    /\ query = <<>>
    /\ mutex \in BOOLEAN

\* the host lets caller c begin a call
Admitted(c) == mutex => \A d \in Callers \ {c} : callers[d].pc = "idle"

\* caller c, admitted by the host, calls a method
EnterHosted(c) == Admitted(c) /\ Enter(c)

NextHosted ==
    \E c \in Callers : EnterHosted(c) \/ Add(c) \/ Send(c) \/ Receive(c)

SpecHosted == InitHosted /\ [][NextHosted]_vars

------------------------------------------------------------------------------
(* Session and Query: every Query.cypher call takes the Session's current   *)
(* Transaction, adds its statement and commits                              *)

\* Session.transaction: has tells whether _transaction is set, t is what it
\* holds then
session_transaction(has, t) ==
    IF ~has \/ ~is_operable(t) THEN TransactionInit ELSE t

\* the results of a response without errors: one block for each statement of
\* the request, in the order of the request
results(req) ==
    [i \in DOMAIN req[1].body[1].json.statements |->
        [data_of |-> req[1].body[1].json.statements[i]]]

\* Query.cypher raising RequestError for every error the server reports
cypher_call_one_error_class(has, t, cypher_string, params, raw, transport) ==
    LET r == method_call("commit",
                 add_statement_call(session_transaction(has, t),
                                    cypher_string, params).txn,
                 transport)
    IN  IF r.raised # "" \/ raw
        THEN r
        ELSE LET errors == r.value[1].errors
             IN  IF errors # <<>>
                 THEN [r EXCEPT !.raised = "RequestError",
                                !.message = errors[1].code \o ": "
                                              \o errors[1].message,
                                !.value = <<>>]
                 ELSE [r EXCEPT !.value = <<results(r.request)[1]>>]

\* Query.cypher
cypher_call(has, t, cypher_string, params, raw, transport) ==
    LET r == method_call("commit",
                 add_statement_call(session_transaction(has, t),
                                    cypher_string, params).txn,
                 transport)
    IN  IF r.raised # "" \/ raw
        THEN r
        ELSE LET errors == r.value[1].errors
             IN  IF errors # <<>>
                 THEN IF errors[1].code = CYPHER_SYNTAX_ERROR_CODE
                      THEN [r EXCEPT !.raised = "CypherSyntaxError",
                                     !.message = errors[1].message,
                                     !.value = <<>>]
                      ELSE [r EXCEPT !.raised = "RequestError",
                                     !.message = errors[1].code \o ": "
                                                   \o errors[1].message,
                                     !.value = <<>>]
                 ELSE [r EXCEPT !.value = <<results(r.request)[1]>>]

\* what urlopen() does for a Query.cypher call: it raises, or it returns a
\* response that does not decode, or one that decodes and reports no error
\* or one
SessionTransports ==
    {<<>>} \cup {<<r>> : r \in {x \in Responses :
                                   \/ decode(x).raised # ""
                                   \/ x.data.json[1].errors \in
                                        SeqsUpTo(ErrorObjects, 1)}}

Query_cypher ==
    \E cypher_string \in Cyphers, params \in Params, raw \in BOOLEAN,
       transport \in SessionTransports :
        /\ MayAdd(session_transaction(session, txn))
        /\ Call("cypher",
                cypher_call(session, txn, cypher_string, params, raw, transport),
                transport)
        /\ session' = TRUE
        /\ query' = <<[cypher_string |-> cypher_string, params |-> params,
                       raw |-> raw]>>
        /\ added' = Append(IF session_transaction(session, txn) = txn
                           THEN added ELSE <<>>,
                           Statement(cypher_string, params))
        /\ UNCHANGED <<callers, mutex>>

SpecSession == Init /\ [][Query_cypher]_vars

------------------------------------------------------------------------------
(* Properties *)

\* the last call made a request and urlopen() returned a response whose body
\* decoded to a document
GotDocument(req, resp) ==
    req # <<>> /\ resp # <<>> /\ decode(resp[1]).raised = ""

\* the errors list of that document
ErrorsOf(resp) == decode(resp[1]).data[1].errors

\* the statements listed in the body of a request
StatementsSent(req) == req[1].body[1].json.statements

closed == txn.committed \/ txn.rolled_back

\* C1: once committed or rolled_back is set, every call of add_statement,
\* execute, commit or rollback raises TransactionClosedError, makes no
\* urlopen() call and leaves every field of the Transaction as it was.
C1_ClosedCallsFail ==
    [][closed =>
          /\ outcome'.raised = TransactionClosedError
          /\ request' = <<>>
          /\ txn' = txn]_vars

\* a call of commit() was refused on a Transaction closed by a rollback
C1_Witness ==
    /\ txn.rolled_back /\ ~txn.committed
    /\ outcome.op = "commit"
    /\ outcome.raised = TransactionClosedError
    /\ outcome.message
         = "Attempted to call commit() on an already rolled-back transaction"
    /\ request = <<>>

\* C2: committed and rolled_back are never both true.
C2_NotCommittedAndRolledBack == ~(txn.committed /\ txn.rolled_back)

\* C3: after a commit() whose decoded response has a non-empty errors list,
\* committed is false.
C3_CommitWithErrorsNotCommitted ==
    (/\ outcome.op = "commit"
     /\ GotDocument(request, response)
     /\ ErrorsOf(response) # <<>>) => ~txn.committed

\* C4: once committed or rolled_back is set the Transaction is never operable
\* again, whatever is called and whatever the server answers, also when the
\* answer reaches a caller that was let through before the Transaction closed.
C4_ClosedForGood ==
    [][(txn.committed \/ txn.rolled_back) => ~is_operable(txn')]_vars

\* a response without errors was processed for an execute() on a Transaction
\* that another caller's request had rolled back meanwhile, and it is closed
C4_Witness ==
    /\ outcome.op = "execute" /\ outcome.raised = ""
    /\ GotDocument(request, response)
    /\ ErrorsOf(response) = <<>>
    /\ txn.rolled_back
    /\ ~is_operable(txn)

\* C5: rollback() on an operable Transaction that has not started raises
\* TransactionNotBegunError, an error other than TransactionClosedError, makes
\* no urlopen() call and leaves the Transaction operable.
C5_RollbackNotBegun ==
    [][(~closed /\ ~txn.started /\ outcome'.op = "rollback") =>
          /\ outcome'.raised = "TransactionNotBegunError"
          /\ outcome'.raised # TransactionClosedError
          /\ request' = <<>>
          /\ is_operable(txn')]_vars

\* C6 as claimed: every execute() or commit() that sent its pending statements
\* and received a response, with or without errors of any code, leaves
\* executed_statements as it was followed by the statements sent, and
\* statements empty.
C6_ArchivedWhateverTheErrors ==
    [][(/\ outcome'.op \in {"execute", "commit"}
        /\ GotDocument(request', response')) =>
          /\ txn'.executed_statements
               = txn.executed_statements \o StatementsSent(request')
          /\ txn'.statements = <<>>]_vars

\* C6 as amended: every execute() or commit() that sent its pending statements
\* and returned the decoded document, with or without errors in it, leaves
\* executed_statements as it was followed by the statements sent, in order,
\* and statements empty; one that raised after sending (the first error has
\* the unknown-transaction code, the body did not decode, urlopen() failed)
\* leaves both lists as they were.
C6_ArchivedWhenReturned ==
    [][(outcome'.op \in {"execute", "commit"} /\ request' # <<>>) =>
          /\ StatementsSent(request') = txn.statements
          /\ IF outcome'.raised = ""
             THEN /\ txn'.executed_statements
                       = txn.executed_statements \o StatementsSent(request')
                  /\ txn'.statements = <<>>
             ELSE /\ txn'.executed_statements = txn.executed_statements
                  /\ txn'.statements = txn.statements]_vars

\* an execute() returned a document with errors, after an earlier one: the
\* log holds two different statements
C6_Witness ==
    /\ outcome.op = "execute" /\ outcome.raised = ""
    /\ GotDocument(request, response)
    /\ ErrorsOf(response) # <<>>
    /\ Len(txn.executed_statements) = 2
    /\ txn.executed_statements[1] # txn.executed_statements[2]
    /\ Len(StatementsSent(request)) = 1
    /\ txn.statements = <<>>

\* C7: whenever execute(), commit() or rollback() processed a decoded response
\* with a non-empty errors list, rolled_back is true afterwards, whichever
\* code comes first and whether the call returned or raised.
C7_ErrorsRollBack ==
    (GotDocument(request, response) /\ ErrorsOf(response) # <<>>)
        => txn.rolled_back

\* an execute() raised on the unknown-transaction code and the Transaction is
\* rolled back
C7_Witness ==
    /\ outcome.op = "execute"
    /\ GotDocument(request, response)
    /\ ErrorsOf(response) # <<>>
    /\ ErrorsOf(response)[1].code = TRANSACTION_TIMED_OUT_CODE
    /\ outcome.raised = TransactionClosedError
    /\ txn.rolled_back

\* C8: for a decoded response with a non-empty errors list, execute(),
\* commit() and rollback() raise TransactionClosedError exactly when the first
\* error has the unknown-transaction code; for every other first code they
\* raise nothing and return the decoded document unchanged.
C8_RaiseOnlyOnExpired ==
    (GotDocument(request, response) /\ ErrorsOf(response) # <<>>) =>
        IF ErrorsOf(response)[1].code = TRANSACTION_TIMED_OUT_CODE
        THEN outcome.raised = TransactionClosedError /\ outcome.value = <<>>
        ELSE /\ outcome.raised = ""
             /\ outcome.value = response[1].data.json

\* a commit() returned a document whose first error is a syntax error and
\* whose second is the unknown-transaction code
C8_Witness ==
    /\ outcome.op = "commit"
    /\ GotDocument(request, response)
    /\ Len(ErrorsOf(response)) = 2
    /\ ErrorsOf(response)[1].code = CYPHER_SYNTAX_ERROR_CODE
    /\ ErrorsOf(response)[2].code = TRANSACTION_TIMED_OUT_CODE
    /\ outcome.raised = ""
    /\ outcome.value = <<[errors |-> ErrorsOf(response)]>>

\* C9 as claimed: location changes at most once. It starts as the base path,
\* which no server location equals, so this says that a location other than
\* the base path is never replaced.
C9_LocationChangesOnce ==
    [][txn.location # BASE_PATH => txn'.location = txn.location]_vars

\* C9 as amended: location changes only in a call whose response carries a
\* location header, to the value of that header; every response with a
\* header is adopted, not only the first.
C9_LocationChangesOnHeader ==
    [][/\ txn'.location # txn.location =>
            /\ response' # <<>>
            /\ response'[1].headers.location = <<txn'.location>>
       /\ (response' # <<>> /\ response'[1].headers.location # <<>>) =>
            response'[1].headers.location = <<txn'.location>>]_vars

\* the second request of a Transaction brought a location header and it is
\* the location now
C9_Witness ==
    /\ txn.executed_statements # <<>>
    /\ outcome.op = "commit"
    /\ response # <<>>
    /\ response[1].headers.location = <<txn.location>>
    /\ request[1].path \in {l \o "/commit" : l \in ServerLocations}
    /\ request[1].path # txn.location \o "/commit"

\* C10: execute() POSTs to the location held at the call a body listing the
\* pending statements in order; commit() POSTs the same body to that location
\* followed by /commit; rollback() DELETEs that location with no body. The
\* location is the base path until a response carries a location header and
\* the value of the last such header afterwards.
C10_RequestMapping ==
    /\ txn.location = BASE_PATH
    /\ [][/\ request' # <<>> =>
               /\ outcome'.op \in {"execute", "commit", "rollback"}
               /\ outcome'.op = "execute" =>
                    request'[1] =
                        [method |-> "POST", path |-> txn.location,
                         body |-> <<[json |-> [statements |-> txn.statements]]>>]
               /\ outcome'.op = "commit" =>
                    request'[1] =
                        [method |-> "POST", path |-> txn.location \o "/commit",
                         body |-> <<[json |-> [statements |-> txn.statements]]>>]
               /\ outcome'.op = "rollback" =>
                    request'[1] =
                        [method |-> "DELETE", path |-> txn.location,
                         body |-> <<>>]
          /\ txn'.location =
                IF response' # <<>> /\ response'[1].headers.location # <<>>
                THEN response'[1].headers.location[1]
                ELSE txn.location]_vars

\* a commit() with nothing pending went to the server's location with an
\* empty list of statements
C10_Witness ==
    /\ outcome.op = "commit"
    /\ request # <<>>
    /\ request[1].method = "POST"
    /\ request[1].path = "/db/data/transaction/17/commit"
    /\ request[1].body = <<[json |-> [statements |-> <<>>]]>>
    /\ Len(txn.executed_statements) = 2

\* C11 as claimed: rollback() on an operable, started Transaction sets
\* rolled_back whenever urlopen() returns a response, whatever is in it.
C11_RollbackAlwaysRollsBack ==
    [][(/\ ~closed /\ txn.started
        /\ outcome'.op = "rollback"
        /\ request' # <<>> /\ response' # <<>>) => txn'.rolled_back]_vars

\* C11 as amended: rollback() on an operable, started Transaction sets
\* rolled_back whenever urlopen() returns a response whose body decodes,
\* whatever the document holds; when the body does not decode the call raises
\* the decoding exception and rolled_back stays false.
C11_RollbackRollsBackWhenDecoded ==
    [][(/\ ~closed /\ txn.started
        /\ outcome'.op = "rollback"
        /\ request' # <<>> /\ response' # <<>>) =>
          IF decode(response'[1]).raised = ""
          THEN txn'.rolled_back
          ELSE /\ ~txn'.rolled_back
               /\ outcome'.raised = decode(response'[1]).raised]_vars

\* a rollback() got a document without errors and the Transaction is rolled
\* back
C11_Witness ==
    /\ outcome.op = "rollback" /\ outcome.raised = ""
    /\ request # <<>> /\ request[1].method = "DELETE"
    /\ GotDocument(request, response)
    /\ ErrorsOf(response) = <<>>
    /\ txn.rolled_back /\ ~txn.committed

\* C12: execute() on an operable Transaction with nothing pending makes no
\* urlopen() call, returns None and leaves every field as it was.
C12_EmptyExecuteDoesNothing ==
    [][(~closed /\ txn.statements = <<>> /\ outcome'.op = "execute") =>
          /\ request' = <<>> /\ response' = <<>>
          /\ outcome'.raised = "" /\ outcome'.value = <<>>
          /\ txn' = txn]_vars

\* an execute() with nothing pending returned None on a Transaction that had
\* started and sent statements before
C12_Witness ==
    /\ outcome.op = "execute" /\ outcome.raised = "" /\ outcome.value = <<>>
    /\ request = <<>>
    /\ txn.statements = <<>> /\ txn.executed_statements # <<>>
    /\ txn.started /\ is_operable(txn)

\* C13: commit() on an operable Transaction with nothing pending still makes
\* the commit request, and on a response without errors leaves committed true
\* and rolled_back false.
C13_EmptyCommitCommits ==
    [][(~closed /\ txn.statements = <<>> /\ outcome'.op = "commit") =>
          /\ request' # <<>>
          /\ request'[1].path = txn.location \o "/commit"
          /\ (GotDocument(request', response') /\ ErrorsOf(response') = <<>>)
                => (txn'.committed /\ ~txn'.rolled_back)]_vars

\* a commit() with nothing pending, after an execute(), got a document
\* without errors and the Transaction is committed
C13_Witness ==
    /\ outcome.op = "commit" /\ outcome.raised = ""
    /\ request # <<>> /\ StatementsSent(request) = <<>>
    /\ GotDocument(request, response) /\ ErrorsOf(response) = <<>>
    /\ txn.executed_statements # <<>>
    /\ txn.committed /\ ~txn.rolled_back

\* C14: when urlopen() raises in execute(), commit() or rollback(), every
\* field of the Transaction is as before the call, so the same call made
\* again sends the same request.
C14_TransportFailureChangesNothing ==
    [][(request' # <<>> /\ response' = <<>>) =>
          /\ outcome'.raised = "TransportError"
          /\ txn' = txn
          /\ request'[1].path = Args(outcome'.op, txn').path
          /\ request'[1].body =
                IF outcome'.op = "rollback" THEN <<>>
                ELSE <<[json |-> [statements |-> txn'.statements]]>>]_vars

\* urlopen() raised in an execute() on a started Transaction: its statement
\* is still pending and the location is the server's
C14_Witness ==
    /\ outcome.op = "execute" /\ outcome.raised = "TransportError"
    /\ request # <<>> /\ response = <<>>
    /\ txn.started /\ request[1].path = txn.location
    /\ txn.statements # <<>> /\ StatementsSent(request) = txn.statements
    /\ txn.executed_statements # <<>>
    /\ is_operable(txn)

IsPrefix(p, q) == Len(p) <= Len(q) /\ p = SubSeq(q, 1, Len(p))

\* C16: executed_statements is an append-only log that is never sent again:
\* every call leaves its earlier contents as the beginning of its new ones;
\* it holds the first of the statements the Transaction was given, each once;
\* and every request lists statements given after all of those.
C16_ExecutedNeverResent ==
    /\ [](IsPrefix(txn.executed_statements, added))
    /\ [][/\ IsPrefix(txn.executed_statements, txn'.executed_statements)
          /\ (request' # <<>> /\ request'[1].body # <<>>) =>
                StatementsSent(request') =
                    SubSeq(added, Len(txn.executed_statements) + 1, Len(added))
         ]_vars

\* a Transaction was given the same statement twice; its second request
\* listed it once, for the second time it was given, the first being in the log
C16_Witness ==
    /\ Len(added) = 2 /\ added[1] = added[2]
    /\ outcome.op = "commit" /\ outcome.raised = ""
    /\ request # <<>> /\ StatementsSent(request) = <<added[2]>>
    /\ txn.executed_statements = added

\* C18: started is true exactly when some processed response carried a
\* location header: it is false at first and each call leaves it true if it
\* was true or its response carries the header, and false otherwise (so it
\* never goes back to false); while it is false the location is the base path.
C18_StartedIffLocationSeen ==
    /\ ~txn.started
    /\ [](~txn.started => txn.location = BASE_PATH)
    /\ [][txn'.started =
            (\/ txn.started
             \/ response' # <<>> /\ response'[1].headers.location # <<>>)
         ]_vars

\* a response carried a location header and bytes that did not
\* decode: the call raised and the Transaction has started
C18_Witness ==
    /\ outcome.op = "execute" /\ outcome.raised = "ValueError"
    /\ response # <<>> /\ response[1].headers.location = <<txn.location>>
    /\ txn.executed_statements = <<>>
    /\ txn.started

\* C17: when Query.cypher is called with raw=False and the response has a
\* non-empty errors list, it raises CypherSyntaxError with the server's
\* message if the first code is the syntax-error code and a plain RequestError
\* if it is any other code but the unknown-transaction code; the Transaction
\* is rolled back when either is raised.
C17_InterpretedErrors ==
    (/\ outcome.op = "cypher" /\ ~query[1].raw
     /\ GotDocument(request, response)
     /\ ErrorsOf(response) # <<>>
     /\ ErrorsOf(response)[1].code # TRANSACTION_TIMED_OUT_CODE) =>
        /\ txn.rolled_back
        /\ IF ErrorsOf(response)[1].code = CYPHER_SYNTAX_ERROR_CODE
           THEN /\ outcome.raised = "CypherSyntaxError"
                /\ outcome.message = ErrorsOf(response)[1].message
           ELSE outcome.raised = "RequestError"

\* a Query.cypher call raised CypherSyntaxError with the server's message on
\* a Transaction that is rolled back
C17_Witness ==
    /\ outcome.op = "cypher" /\ ~query[1].raw
    /\ outcome.raised = "CypherSyntaxError"
    /\ outcome.message = "message of " \o CYPHER_SYNTAX_ERROR_CODE
    /\ GotDocument(request, response)
    /\ ErrorsOf(response)[1].code = CYPHER_SYNTAX_ERROR_CODE
    /\ txn.rolled_back

\* C19: the request of every Query.cypher call lists one statement, the one
\* given to that call, also after an earlier call failed in urlopen() or in
\* the decoding; the Transaction the Session hands out holds no statement of
\* an earlier call.
C19_OneStatementPerQuery ==
    [][/\ session_transaction(session, txn).statements = <<>>
       /\ (outcome'.op = "cypher" /\ request' # <<>>) =>
             StatementsSent(request') =
                 <<Statement(query'[1].cypher_string, query'[1].params)>>
      ]_vars

\* C20: the wrapper's check is not atomic with the request. Whenever a caller
\* is inside urlopen() with a request it issued on a Transaction that another
\* caller's call had already closed, the callers are not serialized: with one
\* call at a time (mutex) no request is issued on a closed Transaction.
C20_LateRequestOnlyUnserialized ==
    \A c \in Callers :
        (callers[c].pc = "urlopen" /\ callers[c].late) => ~mutex

\* without serialization: caller c passed the wrapper, the other caller's
\* commit() or rollback() then ended and closed the Transaction, and c has
\* issued its request all the same
C20_Witness ==
    \E c \in Callers :
        /\ ~mutex
        /\ callers[c].pc = "urlopen" /\ callers[c].late
        /\ outcome.op \in {"commit", "rollback"} /\ outcome.raised = ""
        /\ ~is_operable(txn)
        /\ \A d \in Callers \ {c} : callers[d].pc = "idle"

====
